---- MODULE Spec2Model ----
(***************************************************************************)
(* State-machine model of unrolled_list<T, NodeMaxSize, Allocator>         *)
(* (src/lib/unrolled_list.h).                                              *)
(*                                                                         *)
(* The heap is a function from node addresses 1..MaxNodes to node records; *)
(* address 0 is nullptr.  A storage slot holds a value of T or Raw (raw    *)
(* memory: never constructed, or destroyed).  Element construction may     *)
(* throw and node allocation may fail: both are inputs of a call.          *)
(* Undefined behaviour (use of a released node, destroy of a slot that     *)
(* holds no object, read of such a slot, construction over a live object,  *)
(* a loop that never ends) is recorded in `fault`; the step that commits   *)
(* it takes one of the outcomes a build can produce (chosen by the inputs  *)
(* g and gc), and no call is modelled after it.                            *)
(*                                                                         *)
(* The calls act on the container *this (head_, tail_, size_); a second    *)
(* container `other` in the same heap is the argument of swap, of the      *)
(* copies and of the moves.  `ref` is the std::list the tests compare      *)
(* with, `ret` what the last call returned and did.                        *)
(***************************************************************************)
EXTENDS Integers, Sequences, FiniteSets, TLC

\* Template parameter NodeMaxSize (elements per node) of the instantiation.
NodeMaxSize == 3
\* Number of node addresses the allocator can hand out.
MaxNodes == 3
\* Largest number of elements the explored containers hold.
MaxElems == 4
\* Number of distinct values of T.
NumValues == 2
\* Largest number of failing calls (a throwing construction, a failed
\* allocation) in one run.
MaxFailures == 1
\* Largest count argument n of insert(pos, n, value).
MaxCopies == 2

Values == 1..NumValues
\* The content of a slot that holds no live object.
Raw == 0
\* nullptr
Null == 0
NodeIds == 1..MaxNodes
Slots == 0..(NodeMaxSize - 1)

VARIABLES head_, tail_, size_, nodes, fault, last, ref, net, nfail,
          ret, other, allocated

vars == <<head_, tail_, size_, nodes, fault, last, ref, net, nfail,
          ret, other, allocated>>

\* struct Node after node_alloc_traits::construct: default member initialisers.
FreshNode == [live |-> TRUE, prev |-> Null, next |-> Null, count |-> 0,
              storage |-> [i \in Slots |-> Raw]]

\* A block the allocator holds (not allocated, or released).
FreeNode == [live |-> FALSE, prev |-> Null, next |-> Null, count |-> 0,
             storage |-> [i \in Slots |-> Raw]]

\* The container together with the inputs and the exception state of the
\* call in progress:
\*   fuel  k > 0: the k-th element construction of the call throws;
\*   oom   the node allocation of the call fails;
\*   g, gc the value / the count read from memory that holds no object;
\*   exc   an exception is in flight;  res  how the call ended;
\*   oob   the call needs more node addresses than MaxNodes;
\*   nd    the node create_node returned; after insert and erase (nd, idx)
\*         is the iterator the call returns;
\*   askip the number of node allocations that succeed before oom applies;
\*   allocs, frees, ctors, dtors  the node allocations, node releases,
\*         element constructions and element destructions of the call;
\*   steps the single-element calls a bulk call has made.
Ctx(fuel, oom, g, gc) ==
  [head |-> head_, tail |-> tail_, size |-> size_, nodes |-> nodes,
   fault |-> fault, fuel |-> fuel, oom |-> oom, g |-> g, gc |-> gc,
   exc |-> FALSE, res |-> "ok", oob |-> FALSE, nd |-> Null, idx |-> 0,
   askip |-> 0, allocs |-> 0, frees |-> 0, ctors |-> 0, dtors |-> 0,
   steps |-> 0]

SetFault(X, f) == IF X.fault = "none" THEN [X EXCEPT !.fault = f] ELSE X

FreeIds(X) == {n \in NodeIds : ~X.nodes[n].live}

Min(S) == CHOOSE x \in S : \A y \in S : x <= y

\* Node* create_node(): allocate, then construct the Node.
create_node(X) ==
  IF X.oom /\ X.askip = 0
  THEN [X EXCEPT !.exc = TRUE, !.res = "bad_alloc", !.nd = Null]
  ELSE IF FreeIds(X) = {} THEN [X EXCEPT !.oob = TRUE, !.exc = TRUE, !.nd = Null]
  ELSE LET n == Min(FreeIds(X))
       IN [X EXCEPT !.nodes[n] = FreshNode, !.nd = n, !.allocs = @ + 1,
                    !.askip = IF @ > 0 THEN @ - 1 ELSE 0]

\* data_alloc_traits::construct(data_alloc_, nd->elem_ptr(i), v)
construct(X, n, i, v) ==
  IF X.fuel = 1
  THEN [X EXCEPT !.fuel = 0, !.exc = TRUE, !.res = "throw"]
  ELSE LET X1 == IF ~X.nodes[n].live THEN SetFault(X, "use_after_free")
                 ELSE IF X.nodes[n].storage[i] # Raw
                      THEN SetFault(X, "construct_over_live")
                      ELSE X
       IN [X1 EXCEPT !.fuel = IF @ > 1 THEN @ - 1 ELSE 0,
                     !.nodes[n].storage[i] = v, !.ctors = @ + 1]

\* *nd->elem_ptr(j): the object in slot j; reading a slot that holds none
\* yields the indeterminate value g.
ReadFault(X, n, j) ==
  IF X.nodes[n].storage[j] = Raw THEN SetFault(X, "read_unconstructed") ELSE X

ReadSlot(X, n, j) ==
  IF X.nodes[n].storage[j] = Raw THEN X.g ELSE X.nodes[n].storage[j]

\* data_alloc_traits::construct(data_alloc_, to, *from) with to = m->elem_ptr(i),
\* from = n->elem_ptr(j).
construct_from(X, m, i, n, j) ==
  construct(ReadFault(X, n, j), m, i, ReadSlot(X, n, j))

\* data_alloc_traits::destroy(data_alloc_, nd->elem_ptr(i)) / obj->~T()
destroy(X, n, i) ==
  LET X1 == IF X.nodes[n].storage[i] = Raw
            THEN SetFault(X, "destroy_unconstructed") ELSE X
  IN [X1 EXCEPT !.nodes[n].storage[i] = Raw, !.dtors = @ + 1]

RECURSIVE DestroyPrefix(_, _, _)
\* for (i = 0; i < nd->count; ++i) destroy(elem_ptr(i)), from index i on.
DestroyPrefix(X, n, i) ==
  IF i >= X.nodes[n].count THEN X
  ELSE DestroyPrefix(destroy(X, n, i), n, i + 1)

\* void destroy_node(Node* nd)
destroy_node(X, n) ==
  IF n = Null THEN X
  ELSE IF ~X.nodes[n].live THEN SetFault(X, "use_after_free")
  ELSE [DestroyPrefix(X, n, 0) EXCEPT !.nodes[n] = FreeNode, !.frees = @ + 1]

\* tail_->count as push_back reads it: the released block that tail_ still
\* points to after erase() emptied the container holds an indeterminate count.
TailCount(X) ==
  IF X.nodes[X.tail].live THEN X.nodes[X.tail].count ELSE X.gc

\* push_back uses *tail_.  A container whose head_ is null owns no node: its
\* non-null tail_ is the address of the node erase() released (lines 699-711),
\* also when the allocator has handed that block out again since.
PushBackUse(X) ==
  IF X.nodes[X.tail].live /\ X.head # Null THEN X
  ELSE SetFault(X, "use_after_free")

\* push_back, lines 446-449: if (!tail_) { tail_ = create_node(); head_ = tail_; }
push_back_first(X) ==
  IF X.tail = Null
  THEN LET X1 == create_node(X)
       IN IF X1.exc THEN X1 ELSE [X1 EXCEPT !.tail = X1.nd, !.head = X1.nd]
  ELSE X

\* push_back, lines 451-462: the tail node has room.
push_back_room(X, value) ==
  LET idx == TailCount(X)
      X1 == construct(PushBackUse(X), X.tail, idx, value)
  IN IF X1.exc
     THEN destroy(X1, X.tail, idx)
     ELSE [X1 EXCEPT !.nodes[X.tail].count = idx + 1, !.size = @ + 1]

\* push_back, lines 463-477: the tail node is full, a new tail node is linked.
push_back_grow(X, value) ==
  LET X1 == create_node(PushBackUse(X))
      nd == X1.nd
      X2 == construct(X1, nd, 0, value)
  IN IF X1.exc THEN X1
     ELSE IF X2.exc THEN destroy_node(X2, nd)
     ELSE [X2 EXCEPT !.nodes[nd].count = 1,
                     !.nodes[nd].prev = X.tail,
                     !.nodes[X.tail].next = nd,
                     !.tail = nd,
                     !.size = @ + 1]

\* push_back that links a new tail node one element before the tail is full.
push_back_grow_early(X, value) ==
  LET X1 == push_back_first(X)
  IN IF X1.exc THEN X1
     ELSE IF TailCount(X1) < NodeMaxSize - 1
          THEN push_back_room(X1, value)
          ELSE push_back_grow(X1, value)

\* void push_back(const T& value)
push_back(X, value) ==
  LET X1 == push_back_first(X)
  IN IF X1.exc THEN X1
     ELSE IF TailCount(X1) < NodeMaxSize
          THEN push_back_room(X1, value)
          ELSE push_back_grow(X1, value)

RECURSIVE ShiftRight(_, _, _, _)
\* for (i = from; i > idx; --i) { construct(elem_ptr(i), *elem_ptr(i-1));
\*                                destroy(elem_ptr(i-1)); }
ShiftRight(X, n, i, idx) ==
  IF i <= idx THEN X
  ELSE LET X1 == construct_from(X, n, i, n, i - 1)
       IN IF X1.exc THEN X1
          ELSE ShiftRight(destroy(X1, n, i - 1), n, i - 1, idx)

RECURSIVE ShiftLeft(_, _, _, _)
\* for (i = from; i < end; ++i) { construct(elem_ptr(i-1), *elem_ptr(i));
\*                                destroy(elem_ptr(i)); }
ShiftLeft(X, n, i, end) ==
  IF i >= end THEN X
  ELSE LET X1 == construct_from(X, n, i - 1, n, i)
       IN IF X1.exc THEN X1
          ELSE ShiftLeft(destroy(X1, n, i), n, i + 1, end)

\* Catch block of push_front that moves back every shifted element, the one
\* in slot count included.
push_front_rollback_all(X, h) ==
  LET X1 == ShiftLeft([X EXCEPT !.exc = FALSE], h, 1, X.nodes[h].count + 1)
  IN [X1 EXCEPT !.exc = TRUE]

\* push_front, lines 502-510: the catch block of the in-place path.
push_front_rollback(X, h) ==
  LET X1 == ShiftLeft([X EXCEPT !.exc = FALSE], h, 1, X.nodes[h].count)
  IN [X1 EXCEPT !.exc = TRUE]

\* push_front, lines 488-511: the head node has room.
push_front_room(X, value) ==
  LET h == X.head
      X1 == ShiftRight(X, h, X.nodes[h].count, 0)
      X2 == construct(X1, h, 0, value)
  IN IF X1.exc THEN push_front_rollback(X1, h)
     ELSE IF X2.exc THEN push_front_rollback(X2, h)
     ELSE [X2 EXCEPT !.nodes[h].count = @ + 1, !.size = @ + 1]

\* push_front, lines 512-526: the head node is full, a new head node is linked.
push_front_grow(X, value) ==
  LET X1 == create_node(X)
      nd == X1.nd
      X2 == construct(X1, nd, 0, value)
  IN IF X1.exc THEN X1
     ELSE IF X2.exc THEN destroy_node(X2, nd)
     ELSE [X2 EXCEPT !.nodes[nd].count = 1,
                     !.nodes[nd].next = X.head,
                     !.nodes[X.head].prev = nd,
                     !.head = nd,
                     !.size = @ + 1]

\* push_front, lines 483-486: if (!head_) { head_ = create_node(); tail_ = head_; }
push_front_first(X) ==
  IF X.head = Null
  THEN LET X1 == create_node(X)
       IN IF X1.exc THEN X1 ELSE [X1 EXCEPT !.head = X1.nd, !.tail = X1.nd]
  ELSE X

\* void push_front(const T& value)
push_front(X, value) ==
  LET X1 == push_front_first(X)
  IN IF X1.exc THEN X1
     ELSE IF X1.nodes[X1.head].count < NodeMaxSize
          THEN push_front_room(X1, value)
          ELSE push_front_grow(X1, value)

\* if (size_ == 0) { destroy_node(p); head_ = tail_ = nullptr; }
\* (pop_back lines 543-546 with p = tail_, pop_front lines 568-571 with p = head_)
pop_reset(X, p) ==
  IF X.size = 0
  THEN [destroy_node(X, p) EXCEPT !.head = Null, !.tail = Null]
  ELSE X

\* void pop_back() noexcept
pop_back(X) ==
  IF X.size = 0 THEN X
  ELSE LET nd == X.tail
           idx == X.nodes[nd].count - 1
           X1 == [X EXCEPT !.nodes[nd].count = idx]
           X2 == [destroy(X1, nd, idx) EXCEPT !.size = @ - 1]
           X3 == IF X2.nodes[nd].count = 0 /\ nd # X2.head
                 THEN LET t == X2.nodes[nd].prev
                      IN destroy_node([X2 EXCEPT !.tail = t,
                                                 !.nodes[t].next = Null], nd)
                 ELSE X2
       IN pop_reset(X3, X3.tail)

\* pop_front that destroys slot 0 and does not shift the rest left.
pop_front_noshift(X) ==
  IF X.size = 0 THEN X
  ELSE LET nd == X.head
           X1 == destroy(X, nd, 0)
           X2 == [X1 EXCEPT !.nodes[nd].count = @ - 1, !.size = @ - 1]
           X3 == IF X2.nodes[nd].count = 0 /\ nd # X2.tail
                 THEN LET h == X2.nodes[nd].next
                          X4 == IF h # Null
                                THEN [X2 EXCEPT !.head = h, !.nodes[h].prev = Null]
                                ELSE [X2 EXCEPT !.head = h]
                      IN destroy_node(X4, nd)
                 ELSE X2
       IN pop_reset(X3, X3.head)

\* void pop_front() noexcept
pop_front(X) ==
  IF X.size = 0 THEN X
  ELSE LET nd == X.head
           X1 == ShiftLeft(destroy(X, nd, 0), nd, 1, X.nodes[nd].count)
           X2 == [X1 EXCEPT !.nodes[nd].count = @ - 1, !.size = @ - 1]
           X3 == IF X2.nodes[nd].count = 0 /\ nd # X2.tail
                 THEN LET h == X2.nodes[nd].next
                          X4 == IF h # Null
                                THEN [X2 EXCEPT !.head = h, !.nodes[h].prev = Null]
                                ELSE [X2 EXCEPT !.head = h]
                      IN destroy_node(X4, nd)
                 ELSE X2
       IN pop_reset(X3, X3.head)

\* insert, lines 583-592 (and 617-639 after a split): shift the elements of
\* node from idx on one slot right, construct value at idx, ++count.
insert_shift(X, node, idx, value) ==
  LET X1 == ShiftRight(X, node, X.nodes[node].count, idx)
      X2 == construct(X1, node, idx, value)
  IN IF X1.exc THEN X1
     ELSE IF X2.exc THEN X2
     ELSE [X2 EXCEPT !.nodes[node].count = @ + 1]

RECURSIVE MoveUpper(_, _, _, _, _)
\* insert, lines 597-602: for (i = half; i < NodeMaxSize; ++i)
\*   { construct(new_node->elem_ptr(i - half), *node->elem_ptr(i)); destroy(...); }
MoveUpper(X, node, new_node, half, i) ==
  IF i >= NodeMaxSize THEN X
  ELSE LET X1 == construct_from(X, new_node, i - half, node, i)
       IN IF X1.exc THEN X1
          ELSE MoveUpper(destroy(X1, node, i), node, new_node, half, i + 1)

\* insert, lines 604-615: set both counts and splice new_node after node.
insert_splice(X, node, new_node, half) ==
  LET nx == X.nodes[node].next
      X1 == [X EXCEPT !.nodes[new_node].count = NodeMaxSize - half,
                      !.nodes[node].count = half,
                      !.nodes[new_node].next = nx]
      X2 == IF nx # Null THEN [X1 EXCEPT !.nodes[nx].prev = new_node] ELSE X1
      X3 == [X2 EXCEPT !.nodes[new_node].prev = node,
                       !.nodes[node].next = new_node]
  IN IF X3.tail = node THEN [X3 EXCEPT !.tail = new_node] ELSE X3

\* insert on a full node that sets node->count = half before create_node().
insert_split_count_first(X, node, idx, value) ==
  LET half == NodeMaxSize \div 2
      X0 == [X EXCEPT !.nodes[node].count = half]
      X1 == create_node(X0)
      new_node == X1.nd
      X2 == MoveUpper(X1, node, new_node, half, half)
      X3 == insert_splice(X2, node, new_node, half)
  IN IF X1.exc THEN X1
     ELSE IF X2.exc THEN X2
     ELSE IF idx > half
          THEN [insert_shift(X3, new_node, idx - half, value)
                  EXCEPT !.nd = new_node, !.idx = idx - half]
          ELSE [insert_shift(X3, node, idx, value)
                  EXCEPT !.nd = node, !.idx = idx]

\* insert on a full node that places value in new_node also when idx = half.
insert_split_upper_at_half(X, node, idx, value) ==
  LET X1 == create_node(X)
      new_node == X1.nd
      half == NodeMaxSize \div 2
      X2 == MoveUpper(X1, node, new_node, half, half)
      X3 == insert_splice(X2, node, new_node, half)
  IN IF X1.exc THEN X1
     ELSE IF X2.exc THEN X2
     ELSE IF idx >= half
          THEN [insert_shift(X3, new_node, idx - half, value)
                  EXCEPT !.nd = new_node, !.idx = idx - half]
          ELSE [insert_shift(X3, node, idx, value)
                  EXCEPT !.nd = node, !.idx = idx]

\* insert, lines 593-640: the node is full.
insert_split(X, node, idx, value) ==
  LET X1 == create_node(X)
      new_node == X1.nd
      half == NodeMaxSize \div 2
      X2 == MoveUpper(X1, node, new_node, half, half)
      X3 == insert_splice(X2, node, new_node, half)
  IN IF X1.exc THEN X1
     ELSE IF X2.exc THEN X2
     ELSE IF idx > half
          THEN [insert_shift(X3, new_node, idx - half, value)
                  EXCEPT !.nd = new_node, !.idx = idx - half]
          ELSE [insert_shift(X3, node, idx, value)
                  EXCEPT !.nd = node, !.idx = idx]

\* iterator insert(const_iterator cpos, const T& value), cpos = (node, idx)
insert(X, node, idx, value) ==
  IF node = Null
  THEN LET X1 == push_back(X, value)
       IN IF X1.exc THEN X1
          ELSE [X1 EXCEPT !.nd = X1.tail, !.idx = X1.nodes[X1.tail].count - 1]
  ELSE LET X1 == IF X.nodes[node].count < NodeMaxSize
                 THEN [insert_shift(X, node, idx, value)
                         EXCEPT !.nd = node, !.idx = idx]
                 ELSE insert_split(X, node, idx, value)
       IN IF X1.exc THEN X1 ELSE [X1 EXCEPT !.size = @ + 1]

RECURSIVE insert_n(_, _, _, _, _)
\* iterator insert(const_iterator cpos, size_type n, const T& value):
\*   iterator ret; for (i = 0; i < n; i++) ret = insert(cpos, value); return ret;
\* every round passes the same cpos = (node, idx).
insert_n(X, node, idx, n, value) ==
  IF n = 0 THEN X
  ELSE LET X1 == insert(X, node, idx, value)
       IN IF X1.exc THEN X1
          ELSE insert_n([X1 EXCEPT !.steps = @ + 1], node, idx, n - 1, value)

\* erase, lines 677-696: the emptied node is neither head_ nor tail_.
erase_interior(X, nd) ==
  LET prev == X.nodes[nd].prev
      next == X.nodes[nd].next
      X1 == IF prev # Null THEN [X EXCEPT !.nodes[prev].next = next] ELSE X
      X2 == IF next # Null THEN [X1 EXCEPT !.nodes[next].prev = prev] ELSE X1
  IN [destroy_node(X2, nd) EXCEPT !.nd = next]

\* erase, lines 699-711: the emptied node is head_.
erase_head(X, nd) ==
  LET h == X.nodes[nd].next
      X1 == IF h # Null
            THEN [X EXCEPT !.head = h, !.nodes[h].prev = Null]
            ELSE [X EXCEPT !.head = h]
  IN [destroy_node(X1, nd) EXCEPT !.nd = h]

\* erase, lines 712-719: the emptied node is tail_ (and not head_).
erase_tail(X, nd) ==
  LET t == X.nodes[nd].prev
      X1 == IF t # Null
            THEN [X EXCEPT !.tail = t, !.nodes[t].next = Null]
            ELSE [X EXCEPT !.tail = t]
  IN [destroy_node(X1, nd) EXCEPT !.nd = Null]

\* erase that returns iterator(nd, idx) also when idx is past the last
\* element left in the node.
erase_same_cursor(X, nd, idx) ==
  IF nd = Null THEN [X EXCEPT !.nd = Null, !.idx = 0]
  ELSE LET X1 == ShiftLeft(destroy(X, nd, idx), nd, idx + 1, X.nodes[nd].count)
           X2 == [X1 EXCEPT !.nodes[nd].count = @ - 1, !.size = @ - 1,
                            !.idx = 0]
           cnt == X2.nodes[nd].count
       IN IF cnt = 0 /\ nd # X2.head /\ nd # X2.tail THEN erase_interior(X2, nd)
          ELSE IF cnt = 0 /\ nd = X2.head THEN erase_head(X2, nd)
          ELSE IF cnt = 0 /\ nd = X2.tail THEN erase_tail(X2, nd)
          ELSE IF X2.size = 0
               THEN [destroy_node(X2, nd) EXCEPT !.head = Null, !.tail = Null,
                                                 !.nd = Null]
          ELSE [X2 EXCEPT !.nd = nd, !.idx = idx]

\* erase that refills the node from its successor: when the node after nd
\* holds more than one element, its first element is moved to the end of nd.
erase_borrow(X, nd, idx) ==
  IF nd # Null /\ X.nodes[nd].next # Null
     /\ X.nodes[X.nodes[nd].next].count > 1
  THEN LET nx == X.nodes[nd].next
           cnt == X.nodes[nd].count
           X1 == ShiftLeft(destroy(X, nd, idx), nd, idx + 1, cnt)
           X2 == construct_from(X1, nd, cnt - 1, nx, 0)
           X3 == ShiftLeft(destroy(X2, nx, 0), nx, 1, X.nodes[nx].count)
       IN [X3 EXCEPT !.nodes[nx].count = @ - 1, !.size = @ - 1,
                     !.nd = nd, !.idx = idx]
  ELSE
    IF nd = Null THEN [X EXCEPT !.nd = Null, !.idx = 0]
    ELSE LET X1 == ShiftLeft(destroy(X, nd, idx), nd, idx + 1, X.nodes[nd].count)
             X2 == [X1 EXCEPT !.nodes[nd].count = @ - 1, !.size = @ - 1,
                              !.idx = 0]
             cnt == X2.nodes[nd].count
         IN IF cnt = 0 /\ nd # X2.head /\ nd # X2.tail THEN erase_interior(X2, nd)
            ELSE IF cnt = 0 /\ nd = X2.head THEN erase_head(X2, nd)
            ELSE IF cnt = 0 /\ nd = X2.tail THEN erase_tail(X2, nd)
            ELSE IF X2.size = 0
                 THEN [destroy_node(X2, nd) EXCEPT !.head = Null, !.tail = Null,
                                                   !.nd = Null]
            ELSE IF idx >= cnt THEN [X2 EXCEPT !.nd = X2.nodes[nd].next]
            ELSE [X2 EXCEPT !.nd = nd, !.idx = idx]

\* iterator erase(const_iterator cpos) noexcept, cpos = (nd, idx); the
\* returned iterator is (nd, idx) of the result.
erase(X, nd, idx) ==
  IF nd = Null THEN [X EXCEPT !.nd = Null, !.idx = 0]
  ELSE LET X1 == ShiftLeft(destroy(X, nd, idx), nd, idx + 1, X.nodes[nd].count)
           X2 == [X1 EXCEPT !.nodes[nd].count = @ - 1, !.size = @ - 1,
                            !.idx = 0]
           cnt == X2.nodes[nd].count
       IN IF cnt = 0 /\ nd # X2.head /\ nd # X2.tail THEN erase_interior(X2, nd)
          ELSE IF cnt = 0 /\ nd = X2.head THEN erase_head(X2, nd)
          ELSE IF cnt = 0 /\ nd = X2.tail THEN erase_tail(X2, nd)
          ELSE IF X2.size = 0
               THEN [destroy_node(X2, nd) EXCEPT !.head = Null, !.tail = Null,
                                                 !.nd = Null]
          ELSE IF idx >= cnt THEN [X2 EXCEPT !.nd = X2.nodes[nd].next]
          ELSE [X2 EXCEPT !.nd = nd, !.idx = idx]

RECURSIVE ClearFrom(_, _, _)
\* clear, lines 383-388: while (cur) { nxt = cur->next; destroy_node(cur); cur = nxt; }
ClearFrom(X, cur, k) ==
  IF cur = Null \/ k = 0 THEN X
  ELSE ClearFrom(destroy_node(X, cur), X.nodes[cur].next, k - 1)

\* void clear() noexcept
clear(X) ==
  [ClearFrom(X, X.head, MaxNodes) EXCEPT !.head = Null, !.tail = Null, !.size = 0]

\* Range constructor, lines 318-329: a new node is linked as the tail.
range_ctor_node(X) ==
  LET X1 == create_node(X)
      nd == X1.nd
  IN IF X1.exc THEN X1
     ELSE IF X.head = Null
     THEN [X1 EXCEPT !.head = nd, !.tail = nd]
     ELSE [X1 EXCEPT !.nodes[X.tail].next = nd, !.nodes[nd].prev = X.tail,
                     !.tail = nd]

RECURSIVE range_ctor_loop(_, _, _, _, _)
\* Range constructor, lines 315-337: the loop from the i-th element of the
\* range s on, with current_node = cur and elements_in_current_node = e.
range_ctor_loop(X, s, i, cur, e) ==
  IF i > Len(s) THEN X
  ELSE LET grow == cur = Null \/ e = NodeMaxSize
           X1 == IF grow THEN range_ctor_node(X) ELSE X
           c1 == IF grow THEN X1.nd ELSE cur
           e1 == IF grow THEN 0 ELSE e
           X2 == construct(X1, c1, e1, s[i])
       IN IF X1.exc THEN X1
          ELSE IF X2.exc THEN X2
          ELSE range_ctor_loop([X2 EXCEPT !.nodes[c1].count = @ + 1,
                                          !.size = @ + 1],
                               s, i + 1, c1, e1 + 1)

\* Range constructor whose handler rethrows without clear().
range_ctor_no_clear(X, s) == range_ctor_loop(X, s, 1, Null, 0)

\* unrolled_list(InputIt first, InputIt last, const allocator_type&) on the
\* range s: catch (...) { clear(); throw; }
range_ctor(X, s) ==
  LET X1 == range_ctor_loop(X, s, 1, Null, 0)
  IN IF X1.exc THEN clear(X1) ELSE X1

RECURSIVE erase_range(_, _, _)
\* iterator erase(const_iterator first, const_iterator last) noexcept:
\*   while (first != last) first = erase(first);
\*   return iterator(last.node_, last.index_);
\* first and last_ (the parameter last) are cursors <<node_, index_>>.  erase(end()) returns end()
\* and changes nothing, so once first is end() and last is not, the loop
\* never ends.
erase_range(X, first, last_) ==
  IF first = last_ THEN [X EXCEPT !.nd = last_[1], !.idx = last_[2]]
  ELSE IF first[1] = Null
       THEN [SetFault(X, "infinite_loop") EXCEPT !.res = "hang"]
       ELSE LET X1 == erase(X, first[1], first[2])
            IN erase_range([X1 EXCEPT !.steps = @ + 1], <<X1.nd, X1.idx>>, last_)

(***************************************************************************)
(* Observation: iteration with the container's iterators.                  *)
(***************************************************************************)

\* iterator begin(): head_ ? iterator(head_, 0) : end();  end() is (nullptr, 0).
begin(hd) == IF hd # Null THEN <<hd, 0>> ELSE <<Null, 0>>

\* iterator::operator++ on the cursor c = (node_, index_) over the heap ns.
Incr(ns, c) ==
  IF c[1] = Null THEN c
  ELSE IF c[2] + 1 >= ns[c[1]].count THEN <<ns[c[1]].next, 0>>
  ELSE <<c[1], c[2] + 1>>

RECURSIVE Walk(_, _, _)
\* for (it = c; it != end(); ++it): the cursors visited, at most k of them.
Walk(ns, c, k) ==
  IF c[1] = Null \/ k = 0 THEN <<>>
  ELSE <<c>> \o Walk(ns, Incr(ns, c), k - 1)

\* Every cursor of the chain visits at most this many positions.
WalkBound == MaxNodes * NodeMaxSize + 1

\* The cursors visited from begin() to end().
Cursors == Walk(nodes, begin(head_), WalkBound)

\* operator* at each cursor visited from begin() to end(): the elements read
\* (Raw where the slot holds no object).
Contents ==
  LET cs == Cursors
  IN [k \in 1..Len(cs) |-> nodes[cs[k][1]].storage[cs[k][2]]]

\* iterator::operator-- on the cursor c = (node_, index_) over the heap ns:
\*   if (!node_) return *this;
\*   if (index_ == 0) { node_ = node_->prev; if (node_) index_ = node_->count - 1; }
\*   else --index_;
Decr(ns, c) ==
  IF c[1] = Null THEN c
  ELSE IF c[2] = 0
       THEN LET p == ns[c[1]].prev
            IN IF p # Null THEN <<p, ns[p].count - 1>> ELSE <<Null, 0>>
       ELSE <<c[1], c[2] - 1>>

RECURSIVE RevWalk(_, _, _, _)
\* for (r = reverse_iterator(cur); r != reverse_iterator(stop); ++r) with
\* std::reverse_iterator over the container's iterator: *r reads at --cur,
\* ++r decrements cur.  The cursors read, at most k of them.
RevWalk(ns, cur, stop, k) ==
  IF cur = stop \/ k = 0 THEN <<>>
  ELSE <<Decr(ns, cur)>> \o RevWalk(ns, Decr(ns, cur), stop, k - 1)

\* The cursors read from rbegin() = reverse_iterator(end()) to
\* rend() = reverse_iterator(begin()).
RevCursors == RevWalk(nodes, <<Null, 0>>, begin(head_), WalkBound)

RECURSIVE copy_from(_, _, _)
\* for (it = other.begin(); it != other.end(); ++it) push_back(*it);
\* (lines 249-251, 260-262; with std::move(*it) lines 283-285), from the
\* cursor c of other on, at most k elements.
copy_from(X, c, k) ==
  IF c[1] = Null \/ k = 0 THEN X
  ELSE LET X1 == push_back(ReadFault(X, c[1], c[2]), ReadSlot(X, c[1], c[2]))
       IN IF X1.exc THEN X1 ELSE copy_from(X1, Incr(X1.nodes, c), k - 1)

\* unrolled_list(const unrolled_list& other), o = (head_, tail_, size_) of other.
copy_ctor(X, o) == copy_from(X, begin(o.head), MaxNodes * NodeMaxSize + 1)

\* unrolled_list& operator=(const unrolled_list& other), this != &other
copy_assign(X, o) == copy_from(clear(X), begin(o.head), MaxNodes * NodeMaxSize + 1)

\* unrolled_list(unrolled_list&& other) noexcept: the members of *this.
move_ctor(X, o) == [X EXCEPT !.head = o.head, !.tail = o.tail, !.size = o.size]

\* Move assignment that takes the members of other without clear().
move_assign_no_clear(X, o) ==
  [X EXCEPT !.head = o.head, !.tail = o.tail, !.size = o.size]

\* unrolled_list& operator=(unrolled_list&& other) noexcept, this != &other:
\* the members of *this.
move_assign(X, o) ==
  [clear(X) EXCEPT !.head = o.head, !.tail = o.tail, !.size = o.size]

\* unrolled_list(unrolled_list&& other, const allocator_type&), lines 283-285:
\* the members of *this.
move_ctor_alloc(X, o) == copy_from(X, begin(o.head), MaxNodes * NodeMaxSize + 1)

\* other.clear() (line 286) in the heap X the loop left: the members of other.
move_ctor_alloc_other(X, o) ==
  clear([X EXCEPT !.head = o.head, !.tail = o.tail, !.size = o.size])

\* The cursors visited from other.begin() to other.end(), and the elements read.
OtherCursors == Walk(nodes, begin(other.head), WalkBound)

OtherContents ==
  LET cs == OtherCursors
  IN [k \in 1..Len(cs) |-> nodes[cs[k][1]].storage[cs[k][2]]]

\* bool operator==(const unrolled_list& other) const: reading *it2 at
\* other.end() is not a comparison that holds.
Equal ==
  IF size_ # other.size THEN FALSE
  ELSE \A k \in 1..Len(Cursors) :
         k <= Len(OtherCursors) /\ Contents[k] = OtherContents[k]

\* bool empty() const
empty == size_ = 0

RECURSIVE Chain(_, _, _)
\* The nodes reached from n by following next, at most k of them.
Chain(ns, n, k) ==
  IF n = Null \/ k = 0 THEN <<>> ELSE <<n>> \o Chain(ns, ns[n].next, k - 1)

ChainNodes == Chain(nodes, head_, MaxNodes + 1)

RECURSIVE SumCount(_, _)
SumCount(ns, ch) ==
  IF ch = <<>> THEN 0 ELSE ns[Head(ch)].count + SumCount(ns, Tail(ch))

(***************************************************************************)
(* The reference list (std::list) the same calls are applied to.           *)
(***************************************************************************)
Clamp(k, n) == IF k > n THEN n ELSE k

RefInsert(s, k, v) ==
  LET j == Clamp(k, Len(s) + 1)
  IN SubSeq(s, 1, j - 1) \o <<v>> \o SubSeq(s, j, Len(s))

RefErase(s, k) ==
  IF k > Len(s) THEN s ELSE SubSeq(s, 1, k - 1) \o SubSeq(s, k + 1, Len(s))

\* std::list::erase(first, last) with first at position k1, last at k2.
RefEraseRange(s, k1, k2) == SubSeq(s, 1, k1 - 1) \o SubSeq(s, k2, Len(s))

\* std::list::insert(pos, n, v) with pos at position k.
RefInsertN(s, k, n, v) ==
  LET j == Clamp(k, Len(s) + 1)
  IN SubSeq(s, 1, j - 1) \o [i \in 1..n |-> v] \o SubSeq(s, j, Len(s))

(***************************************************************************)
(* The calls.                                                              *)
(***************************************************************************)
\* The elements of the smallest chain with an interior node: a full node
\* between a head node and a tail node of one element each.
MaxChain == NodeMaxSize + 2

\* The push_back calls that fill two nodes and start a third.
MaxPushes == 2 * NodeMaxSize + 1

\* The container moves, copies and destroys elements without inspecting
\* them: two distinct values are enough to tell a misplaced element.
TwoValues == {1, NumValues}

\* The inputs that make a call fail: <<fuel, oom>>.
NoFail == {<<0, FALSE>>}
AnyFail == {<<k, FALSE>> : k \in 0..(NodeMaxSize + 1)} \cup {<<0, TRUE>>}

\* A live node has a slot below count that holds no object.
Dirty ==
  \E n \in NodeIds : /\ nodes[n].live
                     /\ \E i \in Slots : i < nodes[n].count /\ nodes[n].storage[i] = Raw

\* The values a read of a slot without an object may yield: a choice only in
\* the calls that can make such a read (every slot below count is read at
\* most before the call changes it, except in the rollback of push_front).
Indet(always) == IF always \/ Dirty THEN Values ELSE {1}

\* The counts a read of tail_->count may yield: a choice only when tail_
\* points to a released node.
IndetCount ==
  IF tail_ # Null /\ ~nodes[tail_].live THEN 0..NodeMaxSize ELSE {0}

\* The failure inputs a call may draw from F.
Budget(F) == IF nfail < MaxFailures THEN F ELSE NoFail

\* What a call returned and did: pos and n are its cursor position and its
\* count argument (0 when it has none; for the range constructor the element
\* whose construction throws and the length of the range), (nd, idx) the
\* iterator it returned
\* ((Null, 0) is end(), also recorded for a call that returns none).
RetOf(X, pos, n, it) ==
  [pos |-> pos, n |-> n,
   nd |-> IF it /\ X.res = "ok" THEN X.nd ELSE Null,
   idx |-> IF it /\ X.res = "ok" THEN X.idx ELSE 0,
   steps |-> X.steps, allocs |-> X.allocs, frees |-> X.frees,
   ctors |-> X.ctors, dtors |-> X.dtors]

NoRet ==
  [pos |-> 0, n |-> 0, nd |-> Null, idx |-> 0, steps |-> 0, allocs |-> 0,
   frees |-> 0, ctors |-> 0, dtors |-> 0]

Init ==
  /\ head_ = Null
  /\ tail_ = Null
  /\ size_ = 0
  /\ nodes = [n \in NodeIds |-> FreeNode]
  /\ fault = "none"
  /\ last = [op |-> "init", path |-> "", res |-> "ok"]
  /\ ref = <<>>
  /\ net = 0
  /\ nfail = 0
  /\ ret = NoRet
  \* The container other: its members, its reference list, and whether one
  \* of the two containers has been made a copy of the other.
  /\ other = [head |-> Null, tail |-> Null, size |-> 0, ref |-> <<>>,
              copied |-> FALSE]
  /\ allocated = 0

\* The call op on *this (for insert: on the path "end", "room" or "split",
\* by its cursor) ended in X and returned rt; the reference list becomes r
\* when it succeeded.
CommitThis(op, path, X, r, rt) ==
  /\ ~X.oob
  /\ head_' = X.head
  /\ tail_' = X.tail
  /\ size_' = X.size
  /\ nodes' = X.nodes
  /\ fault' = X.fault
  /\ last' = [op |-> op, path |-> path, res |-> X.res]
  /\ ref' = IF X.res = "ok" THEN r ELSE ref
  /\ net' = IF X.res = "ok" THEN Len(r) - Len(ref) + net ELSE net
  /\ nfail' = IF X.res = "ok" THEN nfail ELSE nfail + 1
  /\ ret' = rt

\* A call that involves neither the other container nor the counting allocator.
CommitCall(op, path, X, r, rt) ==
  /\ CommitThis(op, path, X, r, rt)
  /\ UNCHANGED <<other, allocated>>

CommitPath(op, path, X, r) == CommitCall(op, path, X, r, RetOf(X, 0, 0, FALSE))

Commit(op, X, r) == CommitPath(op, "", X, r)

\* The path insert takes at the cursor (node, idx).
InsertPath(node) ==
  IF node = Null THEN "end"
  ELSE IF nodes[node].count < NodeMaxSize THEN "room" ELSE "split"

\* push_back of a value of V on a container of fewer than m elements.
PushBackTo(F, m, V) ==
  /\ fault = "none" /\ Len(ref) < m
  /\ \E v \in V, f \in Budget(F), g \in Indet(FALSE), gc \in IndetCount :
       Commit("push_back", push_back(Ctx(f[1], f[2], g, gc), v), Append(ref, v))

PushBack(F) == PushBackTo(F, MaxElems, Values)

\* push_front of a value of V on a container of fewer than m elements.
PushFrontTo(F, m, V) ==
  /\ fault = "none" /\ Len(ref) < m
  /\ \E v \in V, f \in Budget(F), g \in Indet(F # NoFail) :
       Commit("push_front", push_front(Ctx(f[1], f[2], g, 0), v), <<v>> \o ref)

PushFront(F) == PushFrontTo(F, MaxElems, Values)

PopBack ==
  /\ fault = "none" /\ ~empty
  /\ \E g \in Indet(FALSE) :
       Commit("pop_back", pop_back(Ctx(0, FALSE, g, 0)), SubSeq(ref, 1, Len(ref) - 1))

PopFront ==
  /\ fault = "none" /\ ~empty
  /\ \E g \in Indet(FALSE) :
       Commit("pop_front", pop_front(Ctx(0, FALSE, g, 0)), RefErase(ref, 1))

\* insert at the cursor reached by advancing begin() k - 1 steps (end() included).
InsertTo(F, m, V) ==
  /\ fault = "none" /\ Len(ref) < m
  /\ \E k \in 1..(Len(Cursors) + 1), v \in V, f \in Budget(F), g \in Indet(FALSE),
        gc \in IndetCount :
       LET c == IF k > Len(Cursors) THEN <<Null, 0>> ELSE Cursors[k]
           X == insert(Ctx(f[1], f[2], g, gc), c[1], c[2], v)
       IN CommitCall("insert", InsertPath(c[1]), X, RefInsert(ref, k, v),
                     RetOf(X, k, 0, TRUE))

Insert(F) == InsertTo(F, MaxElems, Values)

\* erase at a cursor that denotes an element, reached by advancing begin()
\* k - 1 steps for a k in P.
EraseAt(P) ==
  /\ fault = "none"
  /\ \E k \in (1..Len(Cursors)) \cap P, g \in Indet(FALSE) :
       LET c == Cursors[k]
           X == erase(Ctx(0, FALSE, g, 0), c[1], c[2])
       IN /\ c[2] < nodes[c[1]].count
          /\ CommitCall("erase", "", X, RefErase(ref, k), RetOf(X, k, 0, TRUE))

\* insert(pos, n, value) at the cursor reached by advancing begin() k - 1
\* steps (end() included), 1 <= n <= MaxCopies.
InsertN(F) ==
  /\ fault = "none" /\ Len(ref) < MaxElems
  /\ \E k \in 1..(Len(Cursors) + 1), n \in 1..MaxCopies, v \in Values,
        f \in Budget(F), g \in Indet(FALSE), gc \in IndetCount :
       LET c == IF k > Len(Cursors) THEN <<Null, 0>> ELSE Cursors[k]
           X == insert_n(Ctx(f[1], f[2], g, gc), c[1], c[2], n, v)
       IN CommitCall("insert_n", InsertPath(c[1]), X, RefInsertN(ref, k, n, v),
                     RetOf(X, k, n, TRUE))

\* push_back on a container instantiated with the counting allocator of
\* tests/allocator_ut.cpp: allocated is its AllocationCount for nodes.
PushBackCounted ==
  /\ fault = "none" /\ Len(ref) < MaxPushes
  /\ \E v \in Values :
       LET X == push_back(Ctx(0, FALSE, 1, 0), v)
       IN /\ CommitThis("push_back", "", X, Append(ref, v), RetOf(X, 0, 0, FALSE))
          /\ allocated' = allocated + X.allocs
          /\ UNCHANGED other

\* *this is in the state the default constructor leaves: a constructor of a
\* new object may run.
Fresh == head_ = Null /\ tail_ = Null /\ size_ = 0 /\ ref = <<>>

\* The input ranges: up to MaxChain elements, two nodes.
Ranges == UNION {[1..n -> TwoValues] : n \in 0..MaxChain}

\* The inputs that make the range constructor fail on a range of n elements:
\* <<k, FALSE, 0>> the construction of the k-th element throws (never for
\* k = 0), <<0, TRUE, j>> the node allocation after j successful ones fails.
RangeFail(n) ==
  IF nfail < MaxFailures
  THEN {<<k, FALSE, 0>> : k \in 0..n}
         \cup {<<0, TRUE, j>> : j \in 0..((n + NodeMaxSize - 1) \div NodeMaxSize - 1)}
  ELSE {<<0, FALSE, 0>>}

\* unrolled_list l(first, last), constructed where *this is.
RangeConstruct ==
  /\ fault = "none" /\ Fresh
  /\ \E s \in Ranges :
       \E f \in RangeFail(Len(s)) :
         LET X == range_ctor([Ctx(f[1], f[2], 1, 0) EXCEPT !.askip = f[3]], s)
         IN CommitCall("range_ctor", "", X, s, RetOf(X, f[1], Len(s), FALSE))

\* A call on *this that reads or changes other: other becomes o.
CommitBoth(op, X, r, o) ==
  /\ CommitThis(op, "", X, r, RetOf(X, 0, 0, FALSE))
  /\ other' = o
  /\ UNCHANGED allocated

\* void swap(unrolled_list& other)
Swap ==
  /\ fault = "none"
  /\ CommitBoth("swap",
                [Ctx(0, FALSE, 1, 0) EXCEPT !.head = other.head, !.tail = other.tail,
                                            !.size = other.size],
                other.ref,
                [other EXCEPT !.head = head_, !.tail = tail_, !.size = size_,
                              !.ref = ref])

\* unrolled_list copy(other), constructed where *this is.
CopyConstruct ==
  /\ fault = "none" /\ Fresh
  /\ CommitBoth("copy_ctor", copy_ctor(Ctx(0, FALSE, 1, 0), other), other.ref,
                [other EXCEPT !.copied = TRUE])

\* *this = other
CopyAssign ==
  /\ fault = "none"
  /\ CommitBoth("copy_assign", copy_assign(Ctx(0, FALSE, 1, 0), other), other.ref,
                [other EXCEPT !.copied = TRUE])

\* The state of a container that has been moved from.
MovedFrom == [head |-> Null, tail |-> Null, size |-> 0, ref |-> <<>>,
              copied |-> FALSE]

\* unrolled_list moved(std::move(other)), constructed where *this is.
MoveConstruct ==
  /\ fault = "none" /\ Fresh
  /\ CommitBoth("move_ctor", move_ctor(Ctx(0, FALSE, 1, 0), other), other.ref,
                MovedFrom)

\* unrolled_list moved(std::move(other), alloc), constructed where *this is.
MoveConstructAlloc ==
  /\ fault = "none" /\ Fresh
  /\ LET X1 == move_ctor_alloc(Ctx(0, FALSE, 1, 0), other)
         X2 == move_ctor_alloc_other(X1, other)
     IN CommitBoth("move_ctor_alloc",
                   [X2 EXCEPT !.head = X1.head, !.tail = X1.tail, !.size = X1.size],
                   other.ref,
                   [MovedFrom EXCEPT !.head = X2.head, !.tail = X2.tail,
                                     !.size = X2.size])

\* *this = std::move(other); ret.n is the number of nodes *this held.
MoveAssign ==
  /\ fault = "none"
  /\ LET X == move_assign(Ctx(0, FALSE, 1, 0), other)
     IN /\ CommitThis("move_assign", "", X, other.ref,
                      RetOf(X, 0, Len(ChainNodes), FALSE))
        /\ other' = MovedFrom
        /\ UNCHANGED allocated

\* The cursor reached by advancing begin() k - 1 steps (end() past the last).
CursorAt(k) == IF k > Len(Cursors) THEN <<Null, 0>> ELSE Cursors[k]

\* erase(first, last) on a valid range: first is reached by k1 - 1 increments
\* of begin(), last by k2 - k1 more.
EraseRange ==
  /\ fault = "none"
  /\ \E k1 \in 1..(Len(Cursors) + 1), g \in Indet(FALSE) :
       \E k2 \in k1..(Len(Cursors) + 1) :
         LET X == erase_range(Ctx(0, FALSE, g, 0), CursorAt(k1), CursorAt(k2))
         IN CommitCall("erase_range", "", X, RefEraseRange(ref, k1, k2),
                       RetOf(X, k1, k2 - k1, TRUE))

Erase == EraseAt(1..WalkBound)

Clear ==
  /\ fault = "none"
  /\ Commit("clear", clear(Ctx(0, FALSE, 1, 0)), <<>>)

\* Every public call, element construction and node allocation may fail.
Next ==
  \/ PushBack(AnyFail)
  \/ PushFront(AnyFail)
  \/ PopBack
  \/ PopFront
  \/ Insert(AnyFail)
  \/ Erase
  \/ Clear

Spec == Init /\ [][Next]_vars

\* Every public call, no call fails.
NextCalls ==
  \/ PushBack(NoFail)
  \/ PushFront(NoFail)
  \/ PopBack
  \/ PopFront
  \/ Insert(NoFail)
  \/ Erase
  \/ Clear

SpecCalls == Init /\ [][NextCalls]_vars

\* push_back, push_front, insert and erase, no call fails.
NextSeq ==
  \/ PushBack(NoFail)
  \/ PushFront(NoFail)
  \/ Insert(NoFail)
  \/ Erase

SpecSeq == Init /\ [][NextSeq]_vars

\* Pushes, pops and insert, no erase, no call fails.
NextNoErase ==
  \/ PushBack(NoFail)
  \/ PushFront(NoFail)
  \/ PopBack
  \/ PopFront
  \/ Insert(NoFail)

SpecNoErase == Init /\ [][NextNoErase]_vars

\* Every public call, only node allocation may fail.
AllocFail == {<<0, FALSE>>, <<0, TRUE>>}

NextAlloc ==
  \/ PushBack(AllocFail)
  \/ PushFront(AllocFail)
  \/ PopBack
  \/ PopFront
  \/ Insert(AllocFail)
  \/ Erase
  \/ Clear

SpecAlloc == Init /\ [][NextAlloc]_vars

\* Pushes, insert and erase of a range, no call fails.
NextEraseRange ==
  \/ PushBack(NoFail)
  \/ PushFront(NoFail)
  \/ Insert(NoFail)
  \/ EraseRange

SpecEraseRange == Init /\ [][NextEraseRange]_vars

\* push_back, pop_front and insert of n copies, no call fails.
NextInsertN ==
  \/ PushBack(NoFail)
  \/ PopFront
  \/ InsertN(NoFail)

SpecInsertN == Init /\ [][NextInsertN]_vars

\* A container built only by push_back calls from empty.
NextPushBack == PushBackCounted

SpecPushBack == Init /\ [][NextPushBack]_vars

\* Range construction, failing or not, and clear() as the destructor runs it.
NextRange ==
  \/ RangeConstruct
  \/ Clear

SpecRange == Init /\ [][NextRange]_vars

\* Two containers: push_back and erase on either (through swap), and copies
\* of one into the other; no call fails.
NextCopy ==
  \/ PushBackTo(NoFail, MaxElems, TwoValues)
  \/ Erase
  \/ Swap
  \/ CopyConstruct
  \/ CopyAssign

SpecCopy == Init /\ [][NextCopy]_vars

\* Two containers of up to MaxElems elements together: push_back and
\* erase(begin()) on either (through swap), and moves of one into the other;
\* no call fails.
NextMove ==
  \/ PushBackTo(NoFail, MaxElems - Len(other.ref), TwoValues)
  \/ EraseAt({1})
  \/ Swap
  \/ MoveConstruct
  \/ MoveConstructAlloc
  \/ MoveAssign

SpecMove == Init /\ [][NextMove]_vars

\* push_back, push_front and erase on chains of up to three nodes, no call
\* fails.
NextErase ==
  \/ PushBackTo(NoFail, MaxChain, TwoValues)
  \/ PushFrontTo(NoFail, MaxChain, TwoValues)
  \/ Erase

SpecErase == Init /\ [][NextErase]_vars

\* push_back, insert and clear on chains of up to three nodes with full
\* nodes that have a successor, no call fails.
NextSplit ==
  \/ PushBackTo(NoFail, MaxChain, TwoValues)
  \/ InsertTo(NoFail, MaxChain, TwoValues)
  \/ Clear

SpecSplit == Init /\ [][NextSplit]_vars

\* push_back, insert and erase on chains of up to three nodes, no call
\* fails.
NextCursor ==
  \/ PushBackTo(NoFail, MaxChain, TwoValues)
  \/ InsertTo(NoFail, MaxChain, TwoValues)
  \/ Erase

SpecCursor == Init /\ [][NextCursor]_vars

\* Every single-element call on elements of one value; element construction
\* and node allocation may fail.
NextWork ==
  \/ PushBackTo(AnyFail, MaxElems, {1})
  \/ PushFrontTo(AnyFail, MaxElems, {1})
  \/ InsertTo(AnyFail, MaxElems, {1})
  \/ PopBack
  \/ PopFront
  \/ Erase

SpecWork == Init /\ [][NextWork]_vars

(***************************************************************************)
(* Properties.                                                             *)
(***************************************************************************)

\* C1: after any sequence of push_back, push_front, insert and erase at valid
\* cursors, the elements read from begin() to end() are those of the
\* reference list after the same calls.
C1_MatchesReference == Contents = ref

\* C2: after any sequence of push_back, push_front, pop_back, pop_front and
\* insert (no erase), the elements read from begin() to end() are those of
\* std::list after the same calls, and the container is empty() once as many
\* pops as pushes and inserts have been performed.
C2_MatchesStdList ==
  /\ Contents = ref
  /\ net = 0 => empty

\* C2 witness: pops have undone every push and insert, the last one a pop_front.
C2_Witness == last.op = "pop_front" /\ net = 0 /\ empty /\ head_ = Null

\* C3: after every public call, size() is the number of elements visited from
\* begin() to end() and the sum of count over the nodes reached from head.
C3_SizeIsVisited ==
  /\ size_ = Len(Cursors)
  /\ size_ = SumCount(nodes, ChainNodes)

\* C4: after every public call, head and tail are both null or both non-null,
\* both null exactly when size() = 0, and equal (non-null) exactly when the
\* chain has one node.
C4_HeadTailEmpty ==
  /\ (head_ = Null) <=> (tail_ = Null)
  /\ (head_ = Null) <=> (size_ = 0)
  /\ (head_ # Null /\ head_ = tail_) <=> (Len(ChainNodes) = 1)

\* C5: after every public call, one that propagated an exception included,
\* every node reached from head has 1 <= count <= NodeMaxSize.
C5_NodeCapacity ==
  \A k \in 1..Len(ChainNodes) :
    /\ 1 <= nodes[ChainNodes[k]].count
    /\ nodes[ChainNodes[k]].count <= NodeMaxSize

\* C6: once erase(cursor) has removed every element that was inserted, the
\* container is in the state of a freshly constructed one: size() = 0,
\* begin() = end(), head = tail = null.
C6_RoundTripEmpty ==
  (last.op = "erase" /\ size_ = 0) =>
    /\ head_ = Null
    /\ tail_ = Null
    /\ begin(head_) = <<Null, 0>>

\* C7: if the element construction of a push_back throws, size() and the
\* elements read from begin() to end() are those held before the call.
C7_PushBackStrong ==
  [][(last'.op = "push_back" /\ last'.res = "throw") =>
       (size_' = size_ /\ Cursors' = Cursors /\ Contents' = Contents)]_vars

\* C8: if an element construction throws during push_front on a container
\* with a head node, the head node's count and the element of each of its
\* slots, the elements read from begin() to end() and size() are those held
\* before the call.
C8_PushFrontStrong ==
  [][(last'.op = "push_front" /\ last'.res = "throw" /\ head_ # Null) =>
       /\ size_' = size_
       /\ head_' = head_
       /\ nodes'[head_] = nodes[head_]
       /\ Contents' = Contents]_vars

\* C9: if an element construction throws during insert(pos, value) on the
\* in-place path (the target node has room) or on the split path (the target
\* node is full), size() and the elements read from begin() to end() are
\* those held before the call.
C9_InsertStrong ==
  [][(last'.op = "insert" /\ last'.res = "throw" /\ last'.path # "end") =>
       (size_' = size_ /\ Contents' = Contents)]_vars

\* C10: if the node allocation fails inside push_back, push_front or insert,
\* head, tail, size and every node (links, count, slots) are unchanged.
C10_AllocFailureNoEffect ==
  [][(last'.res = "bad_alloc") =>
       (head_' = head_ /\ tail_' = tail_ /\ size_' = size_ /\ nodes' = nodes)]_vars

\* C10 witness: the allocation of the new node failed in insert at a full node.
C10_Witness ==
  /\ last.op = "insert" /\ last.path = "split" /\ last.res = "bad_alloc"
  /\ \E n \in NodeIds : nodes[n].live /\ nodes[n].count = NodeMaxSize

\* C11: erase(first, last) on a valid range returns after exactly as many
\* single-element erasures as the range has elements, leaves the elements of
\* the reference list with that range erased, and returns the cursor of the
\* element last denoted (end() when there is none).
C11_EraseRange ==
  last.op = "erase_range" =>
    /\ last.res = "ok"
    /\ ret.steps = ret.n
    /\ Contents = ref
    /\ size_ = Len(ref)
    /\ <<ret.nd, ret.idx>> = CursorAt(ret.pos)

\* C12: after insert(pos, n, value) the elements read from begin() to end()
\* are those of the reference list with n copies of value inserted before
\* pos, size() has grown by n, and every node reached from head holds its
\* elements in the slots [0, count) with count <= NodeMaxSize.
C12_InsertCopies ==
  (last.op = "insert_n" /\ last.res = "ok") =>
    /\ Contents = ref
    /\ size_ = Len(ref)
    /\ \A j \in 1..Len(ChainNodes) :
         /\ nodes[ChainNodes[j]].count <= NodeMaxSize
         /\ \A i \in Slots :
              (nodes[ChainNodes[j]].storage[i] # Raw) <=> (i < nodes[ChainNodes[j]].count)

\* C13: erase(p) at the cursor of an element decreases size() by 1, removes
\* the element at p and keeps the others in order, and returns the cursor of
\* the element that followed p (end() when p was the last element).  The
\* reference list holds the elements before the call (first conjunct, in
\* every state a call is made from) with the one at position ret.pos erased.
C13_EraseOne ==
  /\ fault = "none" => (Contents = ref /\ size_ = Len(ref))
  /\ last.op = "erase" => <<ret.nd, ret.idx>> = CursorAt(ret.pos)

\* C13 witness: the erase emptied a node that was neither head nor tail and
\* returned the cursor of the first element of the node after it.
C13_Witness ==
  /\ last.op = "erase" /\ ret.frees = 1 /\ ret.pos > 1
  /\ ret.nd # Null /\ ret.idx = 0 /\ ret.nd # head_ /\ size_ > 1

\* C14: clear() leaves size() = 0, begin() = end(), head = tail = null and
\* every node released, from whatever state it is called; a push_back(v)
\* directly after clear() gives size() = 1 and *begin() = v.
C14_ClearReusable ==
  [][/\ (last'.op = "clear") =>
          /\ size_' = 0 /\ empty'
          /\ head_' = Null /\ tail_' = Null
          /\ begin(head_') = <<Null, 0>>
          /\ \A n \in NodeIds : ~nodes'[n].live
     /\ (last.op = "clear" /\ last'.op = "push_back" /\ last'.res = "ok") =>
          /\ size_' = 1
          /\ Len(Cursors') = 1
          /\ Contents'[1] = ref'[1]]_vars

\* C15: in every non-empty container, decrementing end() yields the cursor of
\* the last element (tail node, index count - 1), and the cursors read from
\* rbegin() to rend() are those visited from begin() to end(), in reverse
\* order.
C15_ReverseIteration ==
  ~empty =>
    /\ Decr(nodes, <<Null, 0>>) = <<tail_, nodes[tail_].count - 1>>
    /\ Len(RevCursors) = Len(Cursors)
    /\ \A k \in 1..Len(Cursors) : RevCursors[k] = Cursors[Len(Cursors) + 1 - k]

\* C16: after n push_back calls from empty, ceil(n / NodeMaxSize) nodes have
\* been allocated, all of them in the chain, and every node but the last
\* holds NodeMaxSize elements; a push_back allocates at most one node.
C16_NodeAllocations ==
  /\ size_ = Len(ref)
  /\ allocated = (size_ + NodeMaxSize - 1) \div NodeMaxSize
  /\ Len(ChainNodes) = allocated
  /\ \A k \in 1..(Len(ChainNodes) - 1) : nodes[ChainNodes[k]].count = NodeMaxSize
  /\ ret.allocs <= 1

\* C16 witness: 2 * NodeMaxSize + 1 push_backs have made three allocations.
C16_Witness ==
  /\ size_ = 2 * NodeMaxSize + 1 /\ allocated = 3 /\ last.op = "push_back"
  /\ nodes[tail_].count = 1

\* The nodes a container holds: those reached from its head.
Held(ns, hd) ==
  LET ch == Chain(ns, hd, MaxNodes + 1) IN {ch[k] : k \in 1..Len(ch)}

\* The nodes a container with the members c refers to.
Owned(ns, c) == Held(ns, c.head) \cup ({c.tail} \ {Null})

This == [head |-> head_, tail |-> tail_, size |-> size_]

\* C17: right after a copy construction or copy assignment the two
\* containers compare equal under operator== and share no node, and once one
\* is a copy of the other a push_back or erase on one of them leaves size()
\* and the elements read from begin() to end() of the other unchanged.
C17_DeepCopy ==
  [][/\ (last'.op \in {"copy_ctor", "copy_assign"}) =>
          /\ Equal'
          /\ Owned(nodes', This') \cap Owned(nodes', other') = {}
     /\ (other.copied /\ last'.op \in {"push_back", "erase"}) =>
          /\ other'.size = other.size
          /\ OtherContents' = OtherContents]_vars

\* C18: after a move construction, a move construction with an allocator or
\* a move assignment from other into *this, *this holds the elements other
\* held before the call, other has size 0 and head = tail = null, the nodes
\* *this held before a move assignment are released, and the two containers
\* refer to no common node.  Each reference list holds the elements of its
\* container in every state a call is made from (first conjunct); a move
\* gives *this the reference list of other.
C18_Move ==
  /\ fault = "none" =>
       /\ Contents = ref /\ size_ = Len(ref)
       /\ OtherContents = other.ref /\ other.size = Len(other.ref)
  /\ (last.op \in {"move_ctor", "move_ctor_alloc", "move_assign"}) =>
       /\ other.head = Null /\ other.tail = Null /\ other.size = 0
       /\ (last.op = "move_assign") => ret.frees = ret.n
       /\ Owned(nodes, This) \cap Owned(nodes, other) = {}

\* C18 witness: a move assignment released the nodes of *this and gave it
\* the elements of other.
C18_Witness ==
  /\ last.op = "move_assign" /\ ret.frees >= 1 /\ size_ >= 1
  /\ other.head = Null

\* C19: when the range constructor fails, because the construction of the
\* k-th element throws or a node allocation fails, it leaves head = tail =
\* null and size 0, every node it allocated is released and no node is
\* live, every element it constructed was destroyed once (as many
\* destructions as constructions, none of a slot without an object), and
\* after a throw at the k-th element k - 1 elements had been constructed.
C19_RangeRollback ==
  (last.op = "range_ctor" /\ last.res # "ok") =>
    /\ fault = "none"
    /\ head_ = Null /\ tail_ = Null /\ size_ = 0
    /\ ret.frees = ret.allocs
    /\ \A n \in NodeIds : ~nodes[n].live
    /\ ret.dtors = ret.ctors
    /\ (last.res = "throw") => ret.ctors = ret.pos - 1

\* C19 witness: the construction of an element of the second node threw
\* after the first node was filled.
C19_Witness ==
  /\ last.op = "range_ctor" /\ last.res = "throw"
  /\ ret.pos > NodeMaxSize + 1 /\ ret.dtors > NodeMaxSize /\ ret.frees = 2
  /\ head_ = Null

\* C20: after an erase(p) that emptied and destroyed p's node, head is the
\* first and tail the last of the remaining nodes (both null when none
\* remains), neither refers to the destroyed node, the remaining nodes form
\* the chain from head, and the returned cursor is the first element of the
\* following node or end().
C20_EmptyNodeUnlinked ==
  (last.op = "erase" /\ ret.frees = 1) =>
    LET remaining == {n \in NodeIds : nodes[n].live}
    IN /\ (remaining = {}) => (head_ = Null /\ tail_ = Null)
       /\ (remaining # {}) =>
            /\ head_ \in remaining /\ tail_ \in remaining
            /\ nodes[head_].prev = Null /\ nodes[tail_].next = Null
            /\ Held(nodes, head_) = remaining
            /\ tail_ = ChainNodes[Len(ChainNodes)]
       /\ <<ret.nd, ret.idx>> = CursorAt(ret.pos)
       /\ ret.nd # Null => ret.idx = 0

\* The elements of node n in the heap ns, slots 0 .. count - 1.
NodeElems(ns, n) == [j \in 1..ns[n].count |-> ns[n].storage[j - 1]]

\* C21: a successful insert(pos, v) at the cursor (n, idx) of a full node n
\* allocates exactly one node m and links it directly after n (n.next = m,
\* m.prev = n, m.next is the former next of n, whose prev becomes m; tail
\* becomes m if n was tail); the former elements [half, C) of n are in m
\* and [0, half) stay in n, in order, with v in m at idx - half when
\* idx > half and in n at idx otherwise; the counts add up to C + 1 and
\* both lie in 1..C; the returned iterator is the cursor of v.
C21_InsertSplit ==
  [][(last'.op = "insert" /\ last'.path = "split" /\ last'.res = "ok") =>
       LET n == CursorAt(ret'.pos)[1]
           idx == CursorAt(ret'.pos)[2]
           v == ref'[ret'.pos]
           half == NodeMaxSize \div 2
           nx == nodes[n].next
           m == nodes'[n].next
           lower == SubSeq(NodeElems(nodes, n), 1, half)
           upper == SubSeq(NodeElems(nodes, n), half + 1, NodeMaxSize)
       IN /\ nodes[n].count = NodeMaxSize
          /\ ret'.allocs = 1 /\ ret'.frees = 0
          /\ m # Null /\ ~nodes[m].live /\ nodes'[m].live
          /\ {k \in NodeIds : nodes'[k].live} = {k \in NodeIds : nodes[k].live} \cup {m}
          /\ nodes'[m].prev = n /\ nodes'[m].next = nx
          /\ nx # Null => nodes'[nx].prev = m
          /\ nodes'[n].prev = nodes[n].prev
          /\ tail_' = (IF tail_ = n THEN m ELSE tail_)
          /\ head_' = head_
          /\ IF idx > half
             THEN /\ NodeElems(nodes', n) = lower
                  /\ NodeElems(nodes', m) = RefInsert(upper, idx - half + 1, v)
                  /\ <<ret'.nd, ret'.idx>> = <<m, idx - half>>
             ELSE /\ NodeElems(nodes', n) = RefInsert(lower, idx + 1, v)
                  /\ NodeElems(nodes', m) = upper
                  /\ <<ret'.nd, ret'.idx>> = <<n, idx>>
          /\ nodes'[n].count + nodes'[m].count = NodeMaxSize + 1
          /\ nodes'[n].count \in 1..NodeMaxSize
          /\ nodes'[m].count \in 1..NodeMaxSize]_vars

\* C21 witness: the split of a full node that had a successor placed the
\* value in the new node, which now lies between the two.
C21_Witness ==
  /\ last.op = "insert" /\ last.path = "split" /\ last.res = "ok"
  /\ ret.allocs = 1 /\ ret.nd # Null /\ ret.idx > 0
  /\ nodes[ret.nd].prev # Null /\ nodes[ret.nd].next # Null
  /\ nodes[nodes[ret.nd].prev].count = NodeMaxSize \div 2
  /\ nodes[ret.nd].count = NodeMaxSize - NodeMaxSize \div 2 + 1

\* C22: a successful insert or erase at the cursor (n, i) leaves every
\* cursor into a node other than n on the element it denoted, and every
\* cursor (n, j) with j < i as well (for an insert that splits the full
\* node n only when also j < half; not for an erase that empties n, which
\* destroys n): the node is still live, j is below its count and the slot
\* holds the same element.
C22_CursorsKept ==
  [][(last'.op \in {"insert", "erase"} /\ last'.res = "ok") =>
       \A c \in {CursorAt(ret'.pos)} :
         LET n == c[1]
             i == c[2]
             half == NodeMaxSize \div 2
             split == last'.op = "insert" /\ n # Null
                      /\ nodes[n].count = NodeMaxSize
             emptied == last'.op = "erase" /\ n # Null /\ nodes[n].count = 1
             Same(x, j) == /\ nodes'[x].live
                           /\ j < nodes'[x].count
                           /\ nodes'[x].storage[j] = nodes[x].storage[j]
         IN \A x \in Held(nodes, head_) :
              \A j \in 0..(nodes[x].count - 1) :
                /\ (x # n) => Same(x, j)
                /\ (x = n /\ ~emptied /\ j < i /\ (split => j < half))
                     => Same(x, j)]_vars

\* C22 witness: an insert split a full node in a chain with other nodes and
\* placed the value in the new node, so that the cursors below half of the
\* split node and those of the other nodes are the ones kept.
C22_Witness ==
  /\ last.op = "insert" /\ last.path = "split" /\ last.res = "ok"
  /\ ret.idx > 0 /\ Len(ChainNodes) = MaxNodes
  /\ nodes[ret.nd].count = NodeMaxSize - NodeMaxSize \div 2 + 1

\* C23: after every call, also one that threw, in every node reached from
\* head the slot i holds a live element exactly when i < count.
C23_LivePrefix ==
  (fault = "none") =>
    \A n \in Held(nodes, head_) :
      \A i \in Slots : (nodes[n].storage[i] # Raw) <=> (i < nodes[n].count)

\* The objects of T alive in the heap, and the nodes allocated.
LiveObjects ==
  Cardinality({p \in NodeIds \X Slots :
                 nodes[p[1]].live /\ nodes[p[1]].storage[p[2]] # Raw})

LiveNodes == Cardinality({n \in NodeIds : nodes[n].live})

\* C24: over every sequence of calls no element is constructed into a live
\* slot or into a released node, only a live slot is destroyed, no released
\* node is used or released again (no call commits any of these: fault
\* stays "none"); every call changes the number of live objects by its
\* constructions minus its destructions and the number of allocated nodes
\* by its allocations minus its releases, so that no object and no node
\* disappears without being destroyed or released; and after clear() no
\* object is alive and no node allocated (as many destructions as
\* constructions in all).
C24_ExactlyOnce ==
  [][/\ fault' = "none"
     /\ LiveObjects' - LiveObjects = ret'.ctors - ret'.dtors
     /\ LiveNodes' - LiveNodes = ret'.allocs - ret'.frees
     /\ (last'.op = "clear") => (LiveObjects' = 0 /\ LiveNodes' = 0)]_vars

\* The existing elements the last call relocated (constructed in another
\* slot from their old one): its element constructions, less the one of the
\* new element when a push or insert succeeded.
Relocated ==
  IF last.res = "ok" /\ last.op \in {"push_back", "push_front", "insert"}
  THEN ret.ctors - 1
  ELSE ret.ctors

C26_ChainLinks ==
  (size_ > 0) =>
    /\ head_ # Null /\ tail_ # Null
    /\ nodes[head_].prev = Null
    /\ nodes[tail_].next = Null
    /\ Len(ChainNodes) <= MaxNodes
    /\ \A j, k \in 1..Len(ChainNodes) : ChainNodes[j] = ChainNodes[k] => j = k
    /\ \A k \in 1..(Len(ChainNodes) - 1) :
         /\ nodes[ChainNodes[k]].next = ChainNodes[k + 1]
         /\ nodes[ChainNodes[k + 1]].prev = ChainNodes[k]
    /\ tail_ = ChainNodes[Len(ChainNodes)]

====
